---- MODULE Spec2Model ----
(***************************************************************************)
(* QR code generator: the Settings Store (useQRSettings), the History      *)
(* Store (useQRHistory) and the debounced generation pipeline of App.      *)
(*                                                                         *)
(* Strings whose characters matter (colours, the text to encode) are       *)
(* sequences of one-character strings.  JavaScript numbers are integers    *)
(* plus three codes for NaN, +Infinity and -Infinity.  A localStorage      *)
(* value is a tagged record: no item, the empty string, text that          *)
(* JSON.parse rejects, or the JSON value it parses to.                     *)
(***************************************************************************)
EXTENDS Integers, Sequences, FiniteSets, TLC

VARIABLES
  mounted,             \* "none", or what is rendered: "settings", "history", "stores", "app"; "unmounted"
                       \* after App; "generate", "download" for a function called on its own; "button"
  storage,             \* localStorage: key -> raw value
  storageWorks,        \* FALSE: localStorage is unavailable in this browser, getItem and setItem throw
  settings,            \* useQRSettings: useState<QRSettings>
  settingsIsDefault,   \* the state object is the DEFAULT_SETTINGS object itself
  history,             \* useQRHistory: useState<QRHistoryItem[]>
  text,                \* App: useState('')
  dataUrl,             \* App: useState<string | undefined>
  isLoading,           \* App: useState(false)
  error,               \* App: useState<string | undefined>
  lastHistoryTextRef,  \* App: useRef<string>('')
  timers,              \* pending setTimeout callbacks: handle -> captured request and remaining ms
  timeoutId,           \* handle captured by the cleanup of the last generation effect run
  button,              \* DownloadButton: disabled prop, useState(false), timeoutRef.current (0: null)
  inflight,            \* encoder calls issued and not yet settled, in issue order
  document,            \* the DOM: elements created, children of document.body, downloads started
  obs                  \* observations of the run (history variables of the proof)

vars == <<mounted, storage, storageWorks, settings, settingsIsDefault, history, text, dataUrl,
          isLoading, error, lastHistoryTextRef, timers, timeoutId, inflight, document,
          button, obs>>

appVars == <<text, dataUrl, isLoading, error, lastHistoryTextRef, timers,
             timeoutId, inflight, document, button>>

-----------------------------------------------------------------------------
(* JavaScript values *)

Min(a, b) == IF a <= b THEN a ELSE b

NaN == 0 - 2^20
PosInfinity == 2^20
NegInfinity == 0 - 2^20 - 1

\* Number.isFinite
IsFinite(n) == n # NaN /\ n # PosInfinity /\ n # NegInfinity

\* n >= lo and n <= hi on JavaScript numbers: every comparison with NaN is false
NumGE(n, lo) == n # NaN /\ n >= lo
NumLE(n, hi) == n # NaN /\ n <= hi

Undefined == [t |-> "undefined"]
JNull == [t |-> "null"]
JStr(s) == [t |-> "string", v |-> s]
JNum(n) == [t |-> "number", v |-> n]
JArr(seq) == [t |-> "array", v |-> seq]
JObj(fields) == [t |-> "object", v |-> fields]

\* typeof x
TypeOf(j) == IF j.t \in {"null", "array"} THEN "object" ELSE j.t

\* obj[name] for a parsed JSON value that passed the typeof 'object' test
Field(j, name) ==
  IF j.t = "object" /\ name \in DOMAIN j.v THEN j.v[name] ELSE Undefined

\* JSON.stringify of a number: non-finite numbers are written as null
JNumber(n) == IF IsFinite(n) THEN JNum(n) ELSE JNull

NoItem == [kind |-> "null"]
EmptyItem == [kind |-> "empty"]
Garbage == [kind |-> "garbage"]
JsonText(j) == [kind |-> "json", value |-> j]

STORAGE_KEY == "qr-settings"
HISTORY_STORAGE_KEY == "qr-history"

-----------------------------------------------------------------------------
(* Settings Store: validators *)

HexDigits == {"0", "1", "2", "3", "4", "5", "6", "7", "8", "9",
              "a", "b", "c", "d", "e", "f", "A", "B", "C", "D", "E", "F"}

IsValidHexColorLoose(color) ==
  /\ Len(color) >= 4
  /\ color[1] = "#"
  /\ \A i \in 2..4 : color[i] \in HexDigits

IsValidHexColor(color) ==
  /\ Len(color) \in {4, 7}
  /\ color[1] = "#"
  /\ \A i \in 2..Len(color) : color[i] \in HexDigits

IsValidSizeNoUpper(size) == IsFinite(size) /\ NumGE(size, 64)

IsValidSize(size) == IsFinite(size) /\ NumGE(size, 64) /\ NumLE(size, 1024)

IsValidMargin(margin) == IsFinite(margin) /\ NumGE(margin, 0) /\ NumLE(margin, 10)

DEFAULT_SETTINGS ==
  [foregroundColor |-> <<"#", "2", "2", "d", "3", "e", "e">>,
   backgroundColor |-> <<"#", "1", "8", "1", "8", "1", "b">>,
   qrSize |-> 256,
   margin |-> 2]

-----------------------------------------------------------------------------
(* Settings Store: persistence *)

\* JSON.stringify(settings)
StringifySettings(s) ==
  JsonText(JObj([foregroundColor |-> JStr(s.foregroundColor),
                 backgroundColor |-> JStr(s.backgroundColor),
                 qrSize |-> JNumber(s.qrSize),
                 margin |-> JNumber(s.margin)]))

Null == JNull

\* A loader that keeps the valid fields of a partly invalid payload.
LoadSettingsMerging(works, stored) ==
  IF ~works \/ stored.kind # "json" \/ TypeOf(stored.value) # "object"
     \/ stored.value.t = "null"
  THEN Null
  ELSE LET data == stored.value
           fg == Field(data, "foregroundColor")
           bg == Field(data, "backgroundColor")
           sz == Field(data, "qrSize")
           mg == Field(data, "margin")
       IN [foregroundColor |->
             IF TypeOf(fg) = "string" /\ IsValidHexColor(fg.v)
             THEN fg.v ELSE DEFAULT_SETTINGS.foregroundColor,
           backgroundColor |->
             IF TypeOf(bg) = "string" /\ IsValidHexColor(bg.v)
             THEN bg.v ELSE DEFAULT_SETTINGS.backgroundColor,
           qrSize |->
             IF TypeOf(sz) = "number" /\ IsValidSize(sz.v)
             THEN sz.v ELSE DEFAULT_SETTINGS.qrSize,
           margin |->
             IF TypeOf(mg) = "number" /\ IsValidMargin(mg.v)
             THEN mg.v ELSE DEFAULT_SETTINGS.margin]

\* loadSettingsFromStorage(): the record, or Null.  works = FALSE: getItem throws.
LoadSettingsFromStorage(works, stored) ==
  IF ~works THEN Null                                  \* catch
  ELSE IF stored.kind \in {"null", "empty"} THEN Null  \* !stored
  ELSE IF stored.kind = "garbage" THEN Null            \* JSON.parse throws
  ELSE LET parsed == stored.value IN
    IF TypeOf(parsed) # "object" \/ parsed.t = "null" THEN Null
    ELSE LET fg == Field(parsed, "foregroundColor")
             bg == Field(parsed, "backgroundColor")
             sz == Field(parsed, "qrSize")
             mg == Field(parsed, "margin")
         IN IF TypeOf(fg) # "string" THEN Null
            ELSE IF TypeOf(bg) # "string" THEN Null
            ELSE IF TypeOf(sz) # "number" THEN Null
            ELSE IF TypeOf(mg) # "number" THEN Null
            ELSE IF ~IsValidHexColor(fg.v) THEN Null
            ELSE IF ~IsValidHexColor(bg.v) THEN Null
            ELSE IF ~IsValidSize(sz.v) THEN Null
            ELSE IF ~IsValidMargin(mg.v) THEN Null
            ELSE [foregroundColor |-> fg.v, backgroundColor |-> bg.v,
                  qrSize |-> sz.v, margin |-> mg.v]

\* useState initialiser: stored ?? DEFAULT_SETTINGS
InitialSettings(works, stored) ==
  LET loaded == LoadSettingsFromStorage(works, stored)
  IN IF loaded = Null THEN DEFAULT_SETTINGS ELSE loaded

\* localStorage.setItem inside try/catch: a throwing write changes nothing
SetItem(store, works, key, raw) ==
  IF works THEN [store EXCEPT ![key] = raw] ELSE store

\* saveSettingsToStorage(settings)
SaveSettingsToStorage(store, works, s) ==
  SetItem(store, works, STORAGE_KEY, StringifySettings(s))

-----------------------------------------------------------------------------
(* Settings Store: the functional updates of the setters *)

\* (prev) => ({ ...prev, foregroundColor: color })
WithForegroundColor(prev, color) == [prev EXCEPT !.foregroundColor = color]

\* (prev) => ({ ...prev, backgroundColor: color })
WithBackgroundColor(prev, color) == [prev EXCEPT !.backgroundColor = color]

\* (prev) => ({ ...prev, qrSize: size })
WithQrSize(prev, size) == [prev EXCEPT !.qrSize = size]

\* (prev) => ({ ...prev, margin })
WithMargin(prev, margin) == [prev EXCEPT !.margin = margin]

-----------------------------------------------------------------------------
(* History Store *)

MAX_HISTORY_ITEMS == 10

\* prev.slice(0, n)
Slice(seq, n) == SubSeq(seq, 1, Min(n, Len(seq)))

\* prev.slice(-n): the last n elements
SliceLast(seq, n) ==
  SubSeq(seq, Len(seq) - Min(n, Len(seq)) + 1, Len(seq))

\* generateId(): `${Date.now()}-${Math.random().toString(36).slice(2, 9)}`
GenerateId(now, rnd) == <<now, rnd>>

\* new Date().toISOString()
ToISOString(now) == <<"T", now>>

\* the filter callback of loadHistoryFromStorage
IsHistoryItem(item) ==
  /\ TypeOf(item) = "object"
  /\ item.t # "null"
  /\ TypeOf(Field(item, "id")) = "string"
  /\ TypeOf(Field(item, "text")) = "string"
  /\ TypeOf(Field(item, "foregroundColor")) = "string"
  /\ TypeOf(Field(item, "backgroundColor")) = "string"
  /\ TypeOf(Field(item, "size")) = "number"
  /\ TypeOf(Field(item, "margin")) = "number"
  /\ TypeOf(Field(item, "timestamp")) = "string"

\* the QRHistoryItem a validated JSON object stands for
ItemOfJson(item) ==
  [id |-> item.v.id.v, text |-> item.v.text.v,
   foregroundColor |-> item.v.foregroundColor.v,
   backgroundColor |-> item.v.backgroundColor.v,
   size |-> item.v.size.v, margin |-> item.v.margin.v,
   timestamp |-> item.v.timestamp.v]

JsonOfItem(item) ==
  JObj([id |-> JStr(item.id), text |-> JStr(item.text),
        foregroundColor |-> JStr(item.foregroundColor),
        backgroundColor |-> JStr(item.backgroundColor),
        size |-> JNumber(item.size), margin |-> JNumber(item.margin),
        timestamp |-> JStr(item.timestamp)])

\* parsed.filter(...)
RECURSIVE FilterItems(_)
FilterItems(seq) ==
  IF seq = <<>> THEN <<>>
  ELSE IF IsHistoryItem(Head(seq))
       THEN <<ItemOfJson(Head(seq))>> \o FilterItems(Tail(seq))
       ELSE FilterItems(Tail(seq))

\* a loader that returns every valid element
LoadHistoryUntruncated(works, stored) ==
  IF ~works \/ stored.kind # "json" \/ stored.value.t # "array" THEN <<>>
  ELSE FilterItems(stored.value.v)

\* loadHistoryFromStorage().  works = FALSE: getItem throws.
LoadHistoryFromStorage(works, stored) ==
  IF ~works THEN <<>>
  ELSE IF stored.kind \in {"null", "empty"} THEN <<>>
  ELSE IF stored.kind = "garbage" THEN <<>>
  ELSE IF stored.value.t # "array" THEN <<>>
  ELSE Slice(FilterItems(stored.value.v), MAX_HISTORY_ITEMS)

\* JSON.stringify(history)
StringifyHistory(h) ==
  JsonText(JArr([i \in 1..Len(h) |-> JsonOfItem(h[i])]))

\* a save that writes the list under the settings key
SaveHistoryUnderSettingsKey(store, works, h) ==
  SetItem(store, works, STORAGE_KEY, StringifyHistory(h))

\* saveHistoryToStorage(history)
SaveHistoryToStorage(store, works, h) ==
  SetItem(store, works, HISTORY_STORAGE_KEY, StringifyHistory(h))

NewItem(item, now, rnd) ==
  [id |-> GenerateId(now, rnd), text |-> item.text,
   foregroundColor |-> item.foregroundColor,
   backgroundColor |-> item.backgroundColor,
   size |-> item.size, margin |-> item.margin,
   timestamp |-> ToISOString(now)]

\* a functional update that keeps the last MAX_HISTORY_ITEMS of the list
PrependKeepLast(prev, item, now, rnd) ==
  SliceLast(<<NewItem(item, now, rnd)>> \o prev, MAX_HISTORY_ITEMS)

\* the functional update of addToHistory: [newItem, ...prev].slice(0, MAX_HISTORY_ITEMS)
Prepend(prev, item, now, rnd) ==
  Slice(<<NewItem(item, now, rnd)>> \o prev, MAX_HISTORY_ITEMS)

-----------------------------------------------------------------------------
(* App: the generation pipeline *)

DEBOUNCE_MS == 300
SUCCESS_DURATION_MS == 2000
MAX_TEXT_LENGTH == 4096

\* the time the model lets pass in one step
TickMs == DEBOUNCE_MS \div 2

\* the time the model lets pass in one step while DownloadButton is rendered
ButtonTickMs == SUCCESS_DURATION_MS \div 2

WhiteSpace == {" ", "\t", "\n"}

\* str from its first character that is not white space
TrimStart(str) ==
  IF \A i \in DOMAIN str : str[i] \in WhiteSpace THEN <<>>
  ELSE LET first == CHOOSE i \in DOMAIN str :
                      /\ str[i] \notin WhiteSpace
                      /\ \A j \in 1..(i - 1) : str[j] \in WhiteSpace
       IN SubSeq(str, first, Len(str))

\* str up to its last character that is not white space
TrimEnd(str) ==
  IF \A i \in DOMAIN str : str[i] \in WhiteSpace THEN <<>>
  ELSE LET last == CHOOSE i \in DOMAIN str :
                     /\ str[i] \notin WhiteSpace
                     /\ \A j \in (i + 1)..Len(str) : str[j] \in WhiteSpace
       IN SubSeq(str, 1, last)

\* String.prototype.trim
Trim(str) == TrimEnd(TrimStart(str))

\* an options object built from the text as typed
RequestUntrimmed(txt, s) ==
  [text |-> txt, foregroundColor |-> s.foregroundColor,
   backgroundColor |-> s.backgroundColor, size |-> s.qrSize,
   margin |-> s.margin, errorCorrectionLevel |-> "M"]

\* the options object the timer callback passes to generateQRCode; it closes
\* over the text and settings of the render that scheduled it
Request(txt, s) ==
  [text |-> Trim(txt), foregroundColor |-> s.foregroundColor,
   backgroundColor |-> s.backgroundColor, size |-> s.qrSize,
   margin |-> s.margin, errorCorrectionLevel |-> "M"]

\* validateInput returned without throwing
Accepted == <<>>

\* a validateInput without the length check
ValidateInputNoLength(txt) ==
  IF txt = <<>> \/ Trim(txt) = <<>>
  THEN <<"Text input is required", " and cannot be empty.">>
  ELSE Accepted

\* validateInput(text): the message of the QRGenerationError thrown, in parts,
\* or Accepted
ValidateInput(txt) ==
  IF txt = <<>> \/ Trim(txt) = <<>>
  THEN <<"Text input is required", " and cannot be empty.">>
  ELSE IF Len(txt) > MAX_TEXT_LENGTH
  THEN <<"Text ", "exceeds maximum length", " of 4096 characters (got ",
         ToString(Len(txt)), ").">>
  ELSE Accepted

\* result.dataUrl of a successful call: the image of that request
DataUrlOf(req) == [t |-> "string", png |-> req]

\* err.message of a failed call
ErrorOf(msg) == [t |-> "string", v |-> msg]

ENCODER_FAILURE == "QR code generation failed"

\* `QR code generation failed: ${message}`
EncoderFailureMessage(message) == <<ENCODER_FAILURE, ": ", message>>

\* the dependency array of the generation effect
GenDeps(st) ==
  <<st.text, st.settings.foregroundColor, st.settings.backgroundColor,
    st.settings.qrSize, st.settings.margin>>

\* the dependency array of the history effect (addToHistory is stable)
HistoryDeps(st) ==
  <<st.dataUrl, st.text, st.isLoading, st.error,
    st.settings.foregroundColor, st.settings.backgroundColor,
    st.settings.qrSize, st.settings.margin>>

\* a cleanup that does not cancel the timer
KeepTimeout(pending, id) == pending

\* clearTimeout(id)
ClearTimeout(pending, id) ==
  [h \in DOMAIN pending \ {id} |-> pending[h]]

\* the timer whose callback runs leaves the timer table
Expire(pending, id) ==
  [h \in DOMAIN pending \ {id} |-> pending[h]]

\* the handle setTimeout returns
FreeHandle(pending) == CHOOSE h \in 1..(Cardinality(DOMAIN pending) + 1) :
                         h \notin DOMAIN pending

\* setTimeout(callback, ms), callback closing over req
SetTimeout(pending, req, ms) ==
  [h \in DOMAIN pending \cup {FreeHandle(pending)} |->
     IF h \in DOMAIN pending THEN pending[h]
     ELSE [req |-> req, remaining |-> ms]]

\* The state one render of App sees and its effects write.
Snapshot ==
  [text |-> text, settings |-> settings, settingsSet |-> FALSE,
   dataUrl |-> dataUrl, isLoading |-> isLoading, error |-> error,
   ref |-> lastHistoryTextRef, history |-> history, storage |-> storage,
   timers |-> timers, timeoutId |-> timeoutId]

\* the persist effect of useQRSettings: runs when setSettings stored a new object
PersistEffect(st) ==
  IF st.settingsSet
  THEN [st EXCEPT !.storage = SaveSettingsToStorage(@, storageWorks, st.settings),
                  !.settingsSet = FALSE]
  ELSE st

\* the generation effect: cleanup of the previous run, then either the clearing
\* branch or a new debounce timer
GenerationEffect(prev, st, first) ==
  IF ~first /\ GenDeps(prev) = GenDeps(st) THEN st
  ELSE LET cleared == ClearTimeout(st.timers, st.timeoutId) IN
       IF Trim(st.text) = <<>>
       THEN [st EXCEPT !.timers = cleared, !.timeoutId = 0,
                       !.dataUrl = Undefined, !.error = Undefined,
                       !.isLoading = FALSE]
       ELSE [st EXCEPT !.timers = SetTimeout(cleared, Request(st.text, st.settings),
                                             DEBOUNCE_MS),
                       !.timeoutId = FreeHandle(cleared)]

\* the history effect, adding on every render that shows a result
HistoryEffect(prev, st, first, now, rnd) ==
  IF ~first /\ HistoryDeps(prev) = HistoryDeps(st) THEN st
  ELSE IF /\ st.dataUrl # Undefined
          /\ Trim(st.text) # <<>>
          /\ ~st.isLoading
          /\ st.error = Undefined
          /\ st.ref # Trim(st.text)
       THEN LET updated ==
                  Prepend(st.history,
                          [text |-> Trim(st.text),
                           foregroundColor |-> st.settings.foregroundColor,
                           backgroundColor |-> st.settings.backgroundColor,
                           size |-> st.settings.qrSize,
                           margin |-> st.settings.margin], now, rnd)
            IN [st EXCEPT !.ref = Trim(st.text), !.history = updated,
                          !.storage = SaveHistoryToStorage(@, storageWorks, updated)]
       ELSE st

\* one commit: the effects run in the order the hooks are called, all of them
\* over the values of this render (prev: the values of the render before);
\* the state the effects set shows in the next render
Effects(prev, st, first, now, rnd) ==
  LET p == PersistEffect(st)
      g == GenerationEffect(prev, p, first)
      h == HistoryEffect(prev, p, first, now, rnd)
  IN [g EXCEPT !.ref = h.ref, !.history = h.history, !.storage = h.storage]

\* render until no effect sets state any more (two commits always suffice:
\* the only state an effect sets is the clearing branch's)
Commit(prev, st, first, now, rnd) ==
  LET Second(r1) == Effects([st EXCEPT !.settingsSet = FALSE], r1, FALSE, now, rnd)
  IN CHOOSE r2 \in {Second(r1) : r1 \in {Effects(prev, st, first, now, rnd)}} : TRUE

\* write a snapshot back
Publish(st) ==
  \E s \in {st} :
    /\ text' = s.text
    /\ settings' = s.settings
    /\ dataUrl' = s.dataUrl
    /\ isLoading' = s.isLoading
    /\ error' = s.error
    /\ lastHistoryTextRef' = s.ref
    /\ history' = s.history
    /\ storage' = s.storage
    /\ timers' = s.timers
    /\ timeoutId' = s.timeoutId

-----------------------------------------------------------------------------
(* downloadQRCode *)

\* 'data:image/png;base64,'
PNG_DATA_URL_PREFIX ==
  <<"d", "a", "t", "a", ":", "i", "m", "a", "g", "e", "/", "p", "n", "g", ";",
    "b", "a", "s", "e", "6", "4", ",">>

\* str.startsWith(prefix)
StartsWith(str, prefix) ==
  /\ Len(str) >= Len(prefix)
  /\ SubSeq(str, 1, Len(prefix)) = prefix

\* a check that accepts every data URL
IsDataUrl(url) ==
  url # <<>> /\ StartsWith(url, <<"d", "a", "t", "a", ":">>)

\* the negation of the guard of downloadQRCode:
\* !dataUrl || !dataUrl.startsWith('data:image/png;base64,')
IsPngDataUrl(url) ==
  url # <<>> /\ StartsWith(url, PNG_DATA_URL_PREFIX)

\* String(n).padStart(2, '0')
PadStart2(n) == IF n < 10 THEN <<"0", ToString(n)>> ELSE <<ToString(n)>>

\* generateDefaultFilename(): `qr-code-${year}${month}${day}-${hours}${minutes}${seconds}.png`
GenerateDefaultFilename(now) ==
  <<"qr-code-", ToString(now.year)>> \o PadStart2(now.month + 1) \o PadStart2(now.day)
    \o <<"-">> \o PadStart2(now.hours) \o PadStart2(now.minutes)
    \o PadStart2(now.seconds) \o <<".png">>

\* `Failed to download QR code: ${error instanceof Error ? error.message : 'Unknown error'}`
DownloadFailureMessage(err) ==
  <<"Failed to download QR code: ",
    IF err.isError THEN err.message ELSE "Unknown error">>

\* document.body.removeChild(link)
RemoveChild(body, link) == SelectSeq(body, LAMBDA el : el # link)

-----------------------------------------------------------------------------
(* Bounds and inputs *)


MaxAdds == 11          \* addToHistory calls between two mounts or clears

Keys == {STORAGE_KEY, HISTORY_STORAGE_KEY}

Fff == <<"#", "f", "f", "f">>
Blue == <<"#", "3", "b", "8", "2", "F", "6">>

\* arguments of setForegroundColor / setBackgroundColor
ColorInputs ==
  {Fff,
   <<"#", "f", "f", "f", "f">>,                 \* four digits
   <<"f", "f", "f", "f">>,                      \* no hash
   <<"#", "g", "g", "g">>,                      \* not hex
   <<"#", "f", "f", "f", "f", "f", "f", "0">>,  \* seven digits
   <<>>}

\* arguments of setQrSize: Number(event.target.value) may be NaN
SizeInputs == {63, 64, 1024, 1025, 2048, NaN, PosInfinity}

\* arguments of setMargin
MarginInputs == {0 - 1, 0, 10, 11, NaN}

SettingsJson(fg, bg, sz, mg) ==
  JsonText(JObj([foregroundColor |-> fg, backgroundColor |-> bg,
                 qrSize |-> sz, margin |-> mg]))

ValidSettingsPayload == SettingsJson(JStr(Blue), JStr(Fff), JNum(512), JNum(4))

\* contents of localStorage['qr-settings'] before the hook is first rendered
SettingsPayloads ==
  {NoItem, EmptyItem, Garbage,
   JsonText(JNum(5)),
   JsonText(JNull),
   JsonText(JArr(<<>>)),
   ValidSettingsPayload,
   SettingsJson(JStr(Blue), JStr(Fff), JNum(2048), JNum(4)),
   SettingsJson(JStr(Blue), JStr(Fff), JStr(<<"5", "1", "2">>), JNum(4)),
   SettingsJson(JStr(Blue), JStr(<<"r", "e", "d">>), JNum(512), JNum(4)),
   SettingsJson(JNum(7), JStr(Fff), JNum(512), JNum(4)),
   SettingsJson(JStr(Blue), JStr(Fff), JNum(512), JNum(PosInfinity)),
   JsonText(JObj([foregroundColor |-> JStr(Blue), backgroundColor |-> JStr(Fff),
                  qrSize |-> JNum(512)]))}

\* createItemInput(text) of the hook's tests
ItemInput(txt) ==
  [text |-> txt,
   foregroundColor |-> DEFAULT_SETTINGS.foregroundColor,
   backgroundColor |-> DEFAULT_SETTINGS.backgroundColor,
   size |-> 256, margin |-> 2]

\* `item-${i}`
ItemText(i) == <<"item-", i>>

\* Date.now() at the calls of one burst
Nows == {0}

\* Math.random().toString(36).slice(2, 9)
RandomSuffixes == {"k3j9x0a", "p07qz1m"}

StoredItem(id, txt, sz) ==
  JObj([id |-> JStr(id), text |-> JStr(txt),
        foregroundColor |-> JStr(Fff), backgroundColor |-> JStr(Blue),
        size |-> sz, margin |-> JNum(4), timestamp |-> JStr(<<"T", 0>>)])

\* an array of entries and other values
MixedHistoryPayload ==
  JsonText(JArr(<<StoredItem(<<0, "old1">>, <<"stored-", 1>>, JNum(128)),
                  JNum(3),
                  StoredItem(<<0, "old2">>, <<"stored-", 2>>, JStr("128")),
                  StoredItem(<<0, "old3">>, <<"stored-", 3>>, JNum(4096))>>))

\* an array with more entries than the capacity, the second element being null
LongHistoryPayload ==
  JsonText(JArr([i \in 1..(MAX_HISTORY_ITEMS + 2) |->
                   IF i = 2 THEN JNull
                   ELSE StoredItem(<<i, "old">>, <<"stored-", i>>, JNum(128))]))

\* an array of two entries written with the same id
DuplicateIdPayload ==
  JsonText(JArr(<<StoredItem(<<0, "old1">>, <<"stored-", 1>>, JNum(128)),
                  StoredItem(<<0, "old1">>, <<"stored-", 2>>, JNum(256))>>))

\* contents of localStorage['qr-history'] before the hook is first rendered
HistoryPayloads ==
  {NoItem, Garbage,
   JsonText(JObj([id |-> JStr(<<0, "old">>)])),
   MixedHistoryPayload, LongHistoryPayload, DuplicateIdPayload}

HistoryItem(id, txt, fg, bg, sz, mg) ==
  [id |-> id, text |-> txt, foregroundColor |-> fg, backgroundColor |-> bg,
   size |-> sz, margin |-> mg, timestamp |-> <<"T", 0>>]

\* history entries handed to handleRestore: entries loaded from storage are
\* only type-checked, so their colours and numbers may be anything
RestoreItems ==
  {HistoryItem(<<0, "old1">>, <<"a">>, Fff, Fff, 64, 10),
   HistoryItem(<<0, "old2">>, <<"a">>, Fff, <<"r", "e", "d">>, 4096, 0),
   HistoryItem(<<0, "old3">>, <<"b">>, <<"#", "f", "f", "f", "f">>,
               DEFAULT_SETTINGS.backgroundColor, NaN, 50)}

\* 'x'.repeat(n)
Repeat(c, n) == [i \in 1..n |-> c]

\* options.text of the calls of generateQRCode
GenerateTexts ==
  {<<>>, <<" ">>, <<" ", "a">>, <<"a">>,
   Repeat("a", MAX_TEXT_LENGTH),
   Repeat("a", MAX_TEXT_LENGTH + 1),
   Repeat(" ", MAX_TEXT_LENGTH + 1),
   <<"a">> \o Repeat(" ", MAX_TEXT_LENGTH)}

\* the options objects of the calls of generateQRCode
GenerateOptions ==
  {[text |-> t, foregroundColor |-> DEFAULT_SETTINGS.foregroundColor,
    backgroundColor |-> DEFAULT_SETTINGS.backgroundColor,
    size |-> sz, margin |-> mg, errorCorrectionLevel |-> ecl] :
     t \in GenerateTexts, sz \in {64, 256, 1024}, mg \in {0, 2}, ecl \in {"M", "H"}}

MaxAnchors == 2        \* anchor elements downloadQRCode creates in one run

\* dataUrl arguments of downloadQRCode
DownloadDataUrls ==
  {<<>>,
   <<"n", "o", "t", "-", "a", "-", "d", "a", "t", "a", "-", "u", "r", "l">>,
   <<"d", "a", "t", "a", ":", "i", "m", "a", "g", "e", "/", "j", "p", "e", "g",
     ";", "b", "a", "s", "e", "6", "4", ",", "x", "y", "z">>,
   SubSeq(PNG_DATA_URL_PREFIX, 1, Len(PNG_DATA_URL_PREFIX) - 1) \o <<"A">>,
   <<" ">> \o PNG_DATA_URL_PREFIX \o <<"A">>,
   PNG_DATA_URL_PREFIX,
   PNG_DATA_URL_PREFIX \o <<"A", "B">>}

\* filename arguments of downloadQRCode
DownloadFilenames == {Undefined, JStr(<<"custom.png">>)}

\* new Date() at the call
DownloadDates ==
  {[year |-> 2026, month |-> 0, day |-> 5, hours |-> 14, minutes |-> 3, seconds |-> 7]}

NoFailure == [step |-> "none"]

\* the DOM call that throws, and what it throws
DomFailures ==
  {NoFailure,
   [step |-> "appendChild", error |-> [isError |-> TRUE, message |-> "DOM error"]],
   [step |-> "click", error |-> [isError |-> FALSE]],
   [step |-> "removeChild", error |-> [isError |-> TRUE, message |-> ""]]}

MaxStoreAdds == 2      \* addToHistory calls while both hooks are rendered

\* contents of localStorage['qr-history'] before both hooks are rendered; the
\* last entry's size was written as 1e999, which JSON.parse reads as Infinity
StoresHistoryPayloads ==
  {NoItem,
   JsonText(JArr(<<StoredItem(<<0, "old1">>, <<"stored-", 1>>, JNum(128)),
                   JNum(3),
                   StoredItem(<<0, "old2">>, <<"stored-", 2>>, JNum(PosInfinity))>>))}

\* arguments of setQrSize while both hooks are rendered
StoresSizeInputs == {64, 2048}

MaxAppEntries == 2     \* history entries after which the user stops
MaxInFlight == 2       \* encoder calls in flight at once
MaxHistoryRun == 3     \* history entries after which the user stops, when filling the history

MaxBurst == 2          \* changes counted in one burst
MaxClicks == 3         \* calls of the onClick prop of DownloadButton

\* localStorage['qr-history'] holding an entry whose text is longer than the
\* text area accepts
OverlongEntryPayload ==
  JsonText(JArr(<<StoredItem(<<0, "long">>, Repeat("y", MAX_TEXT_LENGTH + 1), JNum(128)),
                  StoredItem(<<0, "old1">>, <<"o", "l", "d">>, JNum(128))>>))

\* values typed into the text area
TextInputs == {<<" ">>, <<"a">>, <<"a", " ">>, <<"b">>}

AppRandomSuffixes == {"k3j9x0a"}

NoObs ==
  [lastCall |-> [op |-> "none"],
   added |-> <<>>, base |-> <<>>,
   sinceChange |-> DEBOUNCE_MS, issued |-> <<>>, burst |-> 0,
   succeeded |-> {}, failed |-> FALSE,
   invocations |-> 0,
   sinceSuccess |-> SUCCESS_DURATION_MS, sinceEntered |-> SUCCESS_DURATION_MS]

Call(op, arg) == [op |-> op, arg |-> arg]

-----------------------------------------------------------------------------
(* Initial state: nothing is rendered yet; localStorage holds what an      *)
(* earlier session, or anything else, left there.                          *)

InitMemory ==
  /\ mounted = "none"
  /\ settings = DEFAULT_SETTINGS
  /\ settingsIsDefault = TRUE
  /\ history = <<>>
  /\ text = <<>>
  /\ dataUrl = Undefined
  /\ isLoading = FALSE
  /\ error = Undefined
  /\ lastHistoryTextRef = <<>>
  /\ timers = <<>>
  /\ timeoutId = 0
  /\ inflight = <<>>
  /\ document = [created |-> 0, body |-> <<>>, downloads |-> <<>>]
  /\ button = [disabled |-> FALSE, showSuccess |-> FALSE, timeoutRef |-> 0]
  /\ obs = NoObs

\* what an unavailable localStorage holds cannot be read: two contents suffice
InitSettings ==
  /\ InitMemory
  /\ storageWorks \in BOOLEAN
  /\ \E p \in SettingsPayloads :
       /\ storageWorks \/ p \in {NoItem, ValidSettingsPayload}
       /\ storage = [k \in Keys |-> IF k = STORAGE_KEY THEN p ELSE NoItem]

InitHistory ==
  /\ InitMemory
  /\ storageWorks \in BOOLEAN
  /\ \E p \in HistoryPayloads :
       /\ storageWorks \/ p \in {NoItem, MixedHistoryPayload}
       /\ storage = [k \in Keys |-> IF k = HISTORY_STORAGE_KEY THEN p ELSE NoItem]

-----------------------------------------------------------------------------
(* useQRSettings rendered on its own *)

\* first render: the useState initialiser, then the persist effect
MountSettings ==
  /\ mounted = "none"
  /\ mounted' = "settings"
  /\ settings' = InitialSettings(storageWorks, storage[STORAGE_KEY])
  /\ settingsIsDefault' =
       (LoadSettingsFromStorage(storageWorks, storage[STORAGE_KEY]) = Null)
  /\ storage' = SaveSettingsToStorage(storage, storageWorks, settings')
  /\ obs' = [obs EXCEPT !.lastCall = [op |-> "mount",
                                      raw |-> storage[STORAGE_KEY],
                                      readOk |-> storageWorks]]
  /\ UNCHANGED <<storageWorks, history>>
  /\ UNCHANGED appVars

UnmountSettings ==
  /\ mounted = "settings"
  /\ mounted' = "none"
  /\ settings' = DEFAULT_SETTINGS
  /\ settingsIsDefault' = TRUE
  /\ obs' = NoObs
  /\ UNCHANGED <<storage, storageWorks, history>>
  /\ UNCHANGED appVars

\* a setter: return early when the validator rejects; otherwise setSettings,
\* re-render, and the persist effect saves the new record
Setter(accepted, new, call) ==
  /\ mounted \in {"settings", "stores"}
  /\ IF accepted
     THEN /\ settings' = new
          /\ settingsIsDefault' = FALSE
          /\ storage' = SaveSettingsToStorage(storage, storageWorks, new)
     ELSE UNCHANGED <<settings, settingsIsDefault, storage>>
  /\ obs' = [obs EXCEPT !.lastCall = call]
  /\ UNCHANGED <<mounted, storageWorks, history>>
  /\ UNCHANGED appVars

SetForegroundColor(color) ==
  Setter(IsValidHexColor(color), WithForegroundColor(settings, color),
         Call("setForegroundColor", color))

SetBackgroundColor(color) ==
  Setter(IsValidHexColor(color), WithBackgroundColor(settings, color),
         Call("setBackgroundColor", color))

SetQrSize(size) ==
  Setter(IsValidSize(size), WithQrSize(settings, size), Call("setQrSize", size))

SetMargin(margin) ==
  Setter(IsValidMargin(margin), WithMargin(settings, margin),
         Call("setMargin", margin))

\* setSettings(DEFAULT_SETTINGS): no re-render when the state already is that object
ResetSettings ==
  /\ mounted \in {"settings", "stores"}
  /\ settings' = DEFAULT_SETTINGS
  /\ settingsIsDefault' = TRUE
  /\ storage' = IF settingsIsDefault THEN storage
                ELSE SaveSettingsToStorage(storage, storageWorks, DEFAULT_SETTINGS)
  /\ obs' = [obs EXCEPT !.lastCall = [op |-> "resetSettings"]]
  /\ UNCHANGED <<mounted, storageWorks, history>>
  /\ UNCHANGED appVars

\* the four setter calls of handleRestore, batched into one render
RestoreSettings(item) ==
  LET s1 == IF IsValidHexColor(item.foregroundColor)
            THEN WithForegroundColor(settings, item.foregroundColor) ELSE settings
      s2 == IF IsValidHexColor(item.backgroundColor)
            THEN WithBackgroundColor(s1, item.backgroundColor) ELSE s1
      s3 == IF IsValidSize(item.size) THEN WithQrSize(s2, item.size) ELSE s2
      s4 == IF IsValidMargin(item.margin) THEN WithMargin(s3, item.margin) ELSE s3
  IN Setter(\/ IsValidHexColor(item.foregroundColor)
            \/ IsValidHexColor(item.backgroundColor)
            \/ IsValidSize(item.size)
            \/ IsValidMargin(item.margin),
            s4, Call("restore", item))

NextSettings ==
  \/ MountSettings
  \/ UnmountSettings
  \/ \E c \in ColorInputs : SetForegroundColor(c)
  \/ \E c \in ColorInputs : SetBackgroundColor(c)
  \/ \E n \in SizeInputs : SetQrSize(n)
  \/ \E n \in MarginInputs : SetMargin(n)
  \/ ResetSettings
  \/ \E item \in RestoreItems : RestoreSettings(item)

SpecSettings == InitSettings /\ [][NextSettings]_vars

-----------------------------------------------------------------------------
(* useQRHistory rendered on its own *)

\* first render: the useState initialiser
MountHistory ==
  /\ mounted = "none"
  /\ mounted' = "history"
  /\ history' = LoadHistoryFromStorage(storageWorks, storage[HISTORY_STORAGE_KEY])
  /\ obs' = [obs EXCEPT !.lastCall = [op |-> "mountHistory"],
                        !.added = <<>>, !.base = history']
  /\ UNCHANGED <<storage, storageWorks, settings, settingsIsDefault>>
  /\ UNCHANGED appVars

\* an addToHistory whose updater lets the exception of a failed write escape,
\* so that React drops the update
AddToHistoryAborting(item, now, rnd) ==
  /\ mounted \in {"history", "stores"}
  /\ Len(obs.added) < MaxAdds
  /\ history' = IF storageWorks THEN Prepend(history, item, now, rnd) ELSE history
  /\ storage' = SaveHistoryToStorage(storage, storageWorks, history')
  /\ obs' = [obs EXCEPT !.lastCall = [op |-> "addToHistory"],
                        !.added = <<NewItem(item, now, rnd)>> \o @]
  /\ UNCHANGED <<mounted, storageWorks, settings, settingsIsDefault>>
  /\ UNCHANGED appVars

\* addToHistory(item): the updater builds the new list and saves it
AddToHistory(item, now, rnd) ==
  /\ mounted \in {"history", "stores"}
  /\ Len(obs.added) < MaxAdds
  /\ history' = Prepend(history, item, now, rnd)
  /\ storage' = SaveHistoryToStorage(storage, storageWorks, history')
  /\ obs' = [obs EXCEPT !.lastCall = [op |-> "addToHistory"],
                        !.added = <<NewItem(item, now, rnd)>> \o @]
  /\ UNCHANGED <<mounted, storageWorks, settings, settingsIsDefault>>
  /\ UNCHANGED appVars

\* clearHistory()
ClearHistory ==
  /\ mounted \in {"history", "stores"}
  /\ history' = <<>>
  /\ storage' = SaveHistoryToStorage(storage, storageWorks, <<>>)
  /\ obs' = [obs EXCEPT !.lastCall = [op |-> "clearHistory"],
                        !.added = <<>>, !.base = <<>>]
  /\ UNCHANGED <<mounted, storageWorks, settings, settingsIsDefault>>
  /\ UNCHANGED appVars

NextHistory ==
  \/ MountHistory
  \/ \E now \in Nows, rnd \in RandomSuffixes :
       AddToHistory(ItemInput(ItemText(Len(obs.added))), now, rnd)
  \/ ClearHistory

SpecHistory == InitHistory /\ [][NextHistory]_vars

-----------------------------------------------------------------------------
(* useQRSettings and useQRHistory rendered by one component, as App does,  *)
(* with the handler that writes a history entry back                       *)

InitStores ==
  /\ InitMemory
  /\ storageWorks \in BOOLEAN
  /\ \E sp \in {NoItem, ValidSettingsPayload}, hp \in StoresHistoryPayloads :
       /\ storageWorks \/ (sp = NoItem /\ hp = NoItem)
       /\ storage = [k \in Keys |-> IF k = STORAGE_KEY THEN sp ELSE hp]

\* first render: both useState initialisers, then the persist effect
MountStores ==
  /\ mounted = "none"
  /\ mounted' = "stores"
  /\ settings' = InitialSettings(storageWorks, storage[STORAGE_KEY])
  /\ settingsIsDefault' =
       (LoadSettingsFromStorage(storageWorks, storage[STORAGE_KEY]) = Null)
  /\ history' = LoadHistoryFromStorage(storageWorks, storage[HISTORY_STORAGE_KEY])
  /\ storage' = SaveSettingsToStorage(storage, storageWorks, settings')
  /\ obs' = [obs EXCEPT !.lastCall = [op |-> "mountStores"],
                        !.added = <<>>, !.base = history']
  /\ UNCHANGED storageWorks
  /\ UNCHANGED appVars

\* handleRestore(item): setText, the four setters (each returns early when its
\* validator rejects) and the ref, batched into one render; then the persist
\* effect when a setter stored a new record
RestoreEntry(item) ==
  LET s1 == IF IsValidHexColor(item.foregroundColor)
            THEN WithForegroundColor(settings, item.foregroundColor) ELSE settings
      s2 == IF IsValidHexColor(item.backgroundColor)
            THEN WithBackgroundColor(s1, item.backgroundColor) ELSE s1
      s3 == IF IsValidSize(item.size) THEN WithQrSize(s2, item.size) ELSE s2
      s4 == IF IsValidMargin(item.margin) THEN WithMargin(s3, item.margin) ELSE s3
      accepted == \/ IsValidHexColor(item.foregroundColor)
                  \/ IsValidHexColor(item.backgroundColor)
                  \/ IsValidSize(item.size)
                  \/ IsValidMargin(item.margin)
  IN /\ mounted = "stores"
     /\ text' = item.text
     /\ lastHistoryTextRef' = item.text
     /\ settings' = s4
     /\ settingsIsDefault' = (settingsIsDefault /\ ~accepted)
     /\ storage' = IF accepted THEN SaveSettingsToStorage(storage, storageWorks, s4)
                   ELSE storage
     /\ obs' = [obs EXCEPT !.lastCall = Call("handleRestore", item)]
     /\ UNCHANGED <<mounted, storageWorks, history, dataUrl, isLoading, error,
                    timers, timeoutId, inflight, document, button>>

NextStores ==
  \/ MountStores
  \/ \E n \in StoresSizeInputs : SetQrSize(n)
  \/ ResetSettings
  \/ \E now \in Nows, rnd \in RandomSuffixes :
       /\ Len(obs.added) < MaxStoreAdds
       /\ AddToHistory(ItemInput(ItemText(Len(obs.added))), now, rnd)
  \/ ClearHistory
  \/ \E i \in DOMAIN history : RestoreEntry(history[i])

SpecStores == InitStores /\ [][NextStores]_vars

-----------------------------------------------------------------------------
(* generateQRCode called on its own: inflight holds the call of             *)
(* QRCode.toDataURL it awaits, obs.lastCall its argument and its outcome    *)

InitGenerate ==
  /\ InitMemory
  /\ storageWorks = TRUE
  /\ storage = [k \in Keys |-> NoItem]

QRGenerationError(message) ==
  [kind |-> "error", name |-> "QRGenerationError", message |-> message]

\* generateQRCode(options) up to its await: validateInput throws, or
\* QRCode.toDataURL is called
GenerateQRCode(options) ==
  /\ mounted \in {"none", "generate"}
  /\ inflight = <<>>
  /\ mounted' = "generate"
  /\ LET check == ValidateInput(options.text) IN
       IF check # Accepted
       THEN /\ inflight' = <<>>
            /\ obs' = [obs EXCEPT !.lastCall =
                         [op |-> "generateQRCode", arg |-> options,
                          encoderCalls |-> 0,
                          outcome |-> QRGenerationError(check)]]
       ELSE /\ inflight' = <<[req |-> options, latest |-> TRUE]>>
            /\ obs' = [obs EXCEPT !.lastCall =
                         [op |-> "generateQRCode", arg |-> options,
                          encoderCalls |-> 1,
                          outcome |-> [kind |-> "pending"]]]
  /\ UNCHANGED <<storage, storageWorks, settings, settingsIsDefault, history,
                 text, dataUrl, isLoading, error, lastHistoryTextRef, timers,
                 timeoutId, document, button>>

\* QRCode.toDataURL resolved: return { dataUrl, width: size, height: size }
ToDataURLResolves ==
  /\ mounted = "generate"
  /\ inflight # <<>>
  /\ inflight' = <<>>
  /\ obs' = [obs EXCEPT !.lastCall.outcome =
               [kind |-> "result", dataUrl |-> DataUrlOf(inflight[1].req),
                width |-> inflight[1].req.size, height |-> inflight[1].req.size]]
  /\ UNCHANGED <<mounted, storage, storageWorks, settings, settingsIsDefault,
                 history, text, dataUrl, isLoading, error, lastHistoryTextRef,
                 timers, timeoutId, document, button>>

\* QRCode.toDataURL rejected: the catch block wraps the failure
ToDataURLRejects ==
  /\ mounted = "generate"
  /\ inflight # <<>>
  /\ inflight' = <<>>
  /\ obs' = [obs EXCEPT !.lastCall.outcome =
               QRGenerationError(EncoderFailureMessage("encoder error"))]
  /\ UNCHANGED <<mounted, storage, storageWorks, settings, settingsIsDefault,
                 history, text, dataUrl, isLoading, error, lastHistoryTextRef,
                 timers, timeoutId, document, button>>

NextGenerate ==
  \/ \E options \in GenerateOptions : GenerateQRCode(options)
  \/ ToDataURLResolves
  \/ ToDataURLRejects

SpecGenerate == InitGenerate /\ [][NextGenerate]_vars

-----------------------------------------------------------------------------
(* downloadQRCode called on its own *)

InitDownload ==
  /\ InitMemory
  /\ storageWorks = TRUE
  /\ storage = [k \in Keys |-> NoItem]

Thrown(message) == [kind |-> "error", name |-> "Error", message |-> message]

\* downloadQRCode(dataUrl, filename)
DownloadQRCode(url, filename, now, failure) ==
  /\ mounted \in {"none", "download"}
  /\ document.created < MaxAnchors
  /\ mounted' = "download"
  /\ IF ~IsPngDataUrl(url)
     THEN /\ document' = document
          /\ obs' = [obs EXCEPT !.lastCall =
                       [op |-> "downloadQRCode", dataUrl |-> url,
                        filename |-> filename,
                        outcome |-> Thrown(<<"Invalid PNG data URL provided">>)]]
     ELSE LET finalFilename == IF filename.t = "undefined"
                               THEN GenerateDefaultFilename(now) ELSE filename.v
              link == [tag |-> "a", node |-> document.created + 1,
                       href |-> url, download |-> finalFilename]
              created == [document EXCEPT !.created = @ + 1]
              appended == [created EXCEPT !.body = Append(@, link)]
              clicked == [appended EXCEPT !.downloads =
                            Append(@, [href |-> link.href, download |-> link.download])]
              removed == [clicked EXCEPT !.body = RemoveChild(@, link)]
          IN /\ document' = CASE failure.step = "appendChild" -> created
                               [] failure.step = "click" -> appended
                               [] failure.step = "removeChild" -> clicked
                               [] OTHER -> removed
             /\ obs' = [obs EXCEPT !.lastCall =
                          [op |-> "downloadQRCode", dataUrl |-> url,
                           filename |-> filename,
                           outcome |->
                             IF failure = NoFailure THEN [kind |-> "returned"]
                             ELSE Thrown(DownloadFailureMessage(failure.error))]]
  /\ UNCHANGED <<storage, storageWorks, settings, settingsIsDefault, history,
                 text, dataUrl, isLoading, error, lastHistoryTextRef, timers,
                 timeoutId, inflight, button>>

NextDownload ==
  \E url \in DownloadDataUrls, filename \in DownloadFilenames,
     now \in DownloadDates, failure \in DomFailures :
    DownloadQRCode(url, filename, now, failure)

SpecDownload == InitDownload /\ [][NextDownload]_vars

-----------------------------------------------------------------------------
(* DownloadButton rendered on its own: inflight holds the promises its      *)
(* onClick prop returned, timers the callback that ends the success state   *)

InitButton ==
  /\ InitMemory
  /\ storageWorks = TRUE
  /\ storage = [k \in Keys |-> NoItem]

\* first render, with the disabled prop the parent passes
MountButton(disabled) ==
  /\ mounted = "none"
  /\ mounted' = "button"
  /\ button' = [button EXCEPT !.disabled = disabled]
  /\ UNCHANGED <<storage, storageWorks, settings, settingsIsDefault, history,
                 text, dataUrl, isLoading, error, lastHistoryTextRef, timers,
                 timeoutId, inflight, document, obs>>

\* the parent renders the button with another value of the disabled prop
SetDisabled(disabled) ==
  /\ mounted = "button"
  /\ disabled # button.disabled
  /\ button' = [button EXCEPT !.disabled = disabled]
  /\ UNCHANGED <<mounted, storage, storageWorks, settings, settingsIsDefault,
                 history, text, dataUrl, isLoading, error, lastHistoryTextRef,
                 timers, timeoutId, inflight, document, obs>>

\* handleClick after the await, with every setTimeout kept pending
ShowSuccessStacking(b, pending, isMounted) ==
  [button |-> [b EXCEPT !.showSuccess = IF isMounted THEN TRUE ELSE @,
                        !.timeoutRef = FreeHandle(pending)],
   timers |-> SetTimeout(pending, "setShowSuccess(false)", SUCCESS_DURATION_MS)]

\* handleClick after `await onClick()` went through: setShowSuccess(true),
\* which an unmounted component ignores, clearTimeout of the handle in
\* timeoutRef, setTimeout of the callback that ends the success state
ShowSuccess(b, pending, isMounted) ==
  [button |-> [b EXCEPT !.showSuccess = IF isMounted THEN TRUE ELSE @,
                        !.timeoutRef = FreeHandle(ClearTimeout(pending, b.timeoutRef))],
   timers |-> SetTimeout(ClearTimeout(pending, b.timeoutRef),
                         "setShowSuccess(false)", SUCCESS_DURATION_MS)]

\* the clocks after an onClick call went through: sinceSuccess restarts,
\* sinceEntered restarts when the button was not in the success state
Completed(o) ==
  [o EXCEPT !.sinceSuccess = 0,
            !.sinceEntered = IF button.showSuccess THEN @ ELSE 0]

\* handleClick returning early only when the button is disabled
HandleClickInSuccess(op, outcome) ==
  /\ mounted = "button"
  /\ IF button.disabled
     THEN /\ obs' = [obs EXCEPT !.lastCall =
                       [op |-> op, invoked |-> FALSE, outcome |-> "none"]]
          /\ UNCHANGED <<button, timers, inflight>>
     ELSE LET called == [obs EXCEPT
                           !.invocations = @ + 1,
                           !.lastCall = [op |-> op, invoked |-> TRUE,
                                         outcome |-> outcome]]
              shown == ShowSuccess(button, timers, TRUE)
          IN CASE outcome = "returns" ->
                    /\ button' = shown.button
                    /\ timers' = shown.timers
                    /\ obs' = Completed(called)
                    /\ UNCHANGED inflight
               [] outcome = "throws" ->
                    /\ obs' = called
                    /\ UNCHANGED <<button, timers, inflight>>
               [] OTHER ->
                    /\ inflight' = Append(inflight, [call |-> "onClick"])
                    /\ obs' = called
                    /\ UNCHANGED <<button, timers>>
  /\ UNCHANGED <<mounted, storage, storageWorks, settings, settingsIsDefault,
                 history, text, dataUrl, isLoading, error, lastHistoryTextRef,
                 timeoutId, document>>

\* handleClick, entered by op: the early return, then onClick(), which
\* returns, throws, or returns a promise that settles later; after an
\* onClick that returned, the rest of handleClick runs before any other event
HandleClick(op, outcome) ==
  /\ mounted = "button"
  /\ IF button.disabled \/ button.showSuccess
     THEN /\ obs' = [obs EXCEPT !.lastCall =
                       [op |-> op, invoked |-> FALSE, outcome |-> "none"]]
          /\ UNCHANGED <<button, timers, inflight>>
     ELSE LET called == [obs EXCEPT
                           !.invocations = @ + 1,
                           !.lastCall = [op |-> op, invoked |-> TRUE,
                                         outcome |-> outcome]]
              shown == ShowSuccess(button, timers, TRUE)
          IN CASE outcome = "returns" ->
                    /\ button' = shown.button
                    /\ timers' = shown.timers
                    /\ obs' = Completed(called)
                    /\ UNCHANGED inflight
               [] outcome = "throws" ->
                    /\ obs' = called
                    /\ UNCHANGED <<button, timers, inflight>>
               [] OTHER ->
                    /\ inflight' = Append(inflight, [call |-> "onClick"])
                    /\ obs' = called
                    /\ UNCHANGED <<button, timers>>
  /\ UNCHANGED <<mounted, storage, storageWorks, settings, settingsIsDefault,
                 history, text, dataUrl, isLoading, error, lastHistoryTextRef,
                 timeoutId, document>>

\* handleKeyDown(event)
KeyDown(key, outcome) ==
  IF key = "Enter" \/ key = " "
  THEN HandleClick("keyDown", outcome)
  ELSE /\ mounted = "button"
       /\ obs' = [obs EXCEPT !.lastCall =
                    [op |-> "otherKey", invoked |-> FALSE, outcome |-> "none"]]
       /\ UNCHANGED <<button, timers, inflight>>
       /\ UNCHANGED <<mounted, storage, storageWorks, settings, settingsIsDefault,
                      history, text, dataUrl, isLoading, error, lastHistoryTextRef,
                      timeoutId, document>>

\* a promise returned by onClick resolves: handleClick goes on after the await
OnClickResolves ==
  /\ mounted \in {"button", "unmounted"}
  /\ inflight # <<>>
  /\ inflight' = Tail(inflight)
  /\ LET shown == ShowSuccess(button, timers, mounted = "button")
     IN /\ button' = shown.button
        /\ timers' = shown.timers
  /\ obs' = Completed([obs EXCEPT !.lastCall =
                         [op |-> "settle", invoked |-> FALSE, outcome |-> "resolves"]])
  /\ UNCHANGED <<mounted, storage, storageWorks, settings, settingsIsDefault,
                 history, text, dataUrl, isLoading, error, lastHistoryTextRef,
                 timeoutId, document>>

\* a promise returned by onClick rejects: the catch block of handleClick
OnClickRejects ==
  /\ mounted \in {"button", "unmounted"}
  /\ inflight # <<>>
  /\ inflight' = Tail(inflight)
  /\ obs' = [obs EXCEPT !.lastCall =
               [op |-> "settle", invoked |-> FALSE, outcome |-> "rejects"]]
  /\ UNCHANGED <<button, timers>>
  /\ UNCHANGED <<mounted, storage, storageWorks, settings, settingsIsDefault,
                 history, text, dataUrl, isLoading, error, lastHistoryTextRef,
                 timeoutId, document>>

\* the callback set in handleClick runs: setShowSuccess(false)
HideSuccess(h) ==
  /\ mounted \in {"button", "unmounted"}
  /\ h \in DOMAIN timers
  /\ timers[h].remaining = 0
  /\ timers' = Expire(timers, h)
  /\ button' = [button EXCEPT !.showSuccess = FALSE]
  /\ UNCHANGED <<inflight, obs>>
  /\ UNCHANGED <<mounted, storage, storageWorks, settings, settingsIsDefault,
                 history, text, dataUrl, isLoading, error, lastHistoryTextRef,
                 timeoutId, document>>

\* the cleanup of the effect: clearTimeout of the handle in timeoutRef
UnmountButton ==
  /\ mounted = "button"
  /\ mounted' = "unmounted"
  /\ timers' = ClearTimeout(timers, button.timeoutRef)
  /\ button' = [button EXCEPT !.showSuccess = FALSE]
  /\ UNCHANGED <<storage, storageWorks, settings, settingsIsDefault, history,
                 text, dataUrl, isLoading, error, lastHistoryTextRef,
                 timeoutId, inflight, document, obs>>

\* ButtonTickMs pass; a callback that is due runs first
ButtonTick ==
  /\ mounted \in {"button", "unmounted"}
  /\ timers # <<>>
  /\ \A h \in DOMAIN timers : timers[h].remaining > 0
  /\ timers' = [h \in DOMAIN timers |->
                  [timers[h] EXCEPT !.remaining = @ - Min(@, ButtonTickMs)]]
  /\ obs' = [obs EXCEPT !.sinceSuccess = @ + ButtonTickMs,
                        !.sinceEntered = @ + ButtonTickMs]
  /\ UNCHANGED <<mounted, storage, storageWorks, settings, settingsIsDefault,
                 history, text, dataUrl, isLoading, error, lastHistoryTextRef,
                 timeoutId, inflight, document, button>>

NextButton ==
  \/ \E d \in BOOLEAN : MountButton(d)
  \/ \E d \in BOOLEAN : SetDisabled(d)
  \* a click; onClick returns, throws, or returns a promise
  \/ \E o \in {"returns", "throws", "promise"} :
       obs.invocations < MaxClicks /\ HandleClick("click", o)
  \/ \E k \in {"Enter", " ", "Tab"}, o \in {"returns", "throws", "promise"} :
       obs.invocations < MaxClicks /\ KeyDown(k, o)
  \/ OnClickResolves
  \/ OnClickRejects
  \/ \E h \in DOMAIN timers : HideSuccess(h)
  \/ UnmountButton
  \/ ButtonTick

SpecButton == InitButton /\ [][NextButton]_vars

-----------------------------------------------------------------------------
(* App: handlers, timer callback and promise callbacks *)

InitApp ==
  /\ InitMemory
  /\ storageWorks = TRUE
  /\ storage = [k \in Keys |-> NoItem]

\* what the run has shown so far, after a handler produced snapshot st
Observe(st) ==
  LET changed == GenDeps(st) # GenDeps(Snapshot) IN
  [obs EXCEPT
     !.sinceChange = IF changed THEN 0 ELSE @,
     !.issued = IF changed THEN <<>> ELSE @,
     !.failed = IF changed THEN FALSE ELSE @,
     !.burst = IF ~changed THEN @
               ELSE IF @ > 0 /\ obs.sinceChange < DEBOUNCE_MS
                    THEN Min(@ + 1, MaxBurst) ELSE 1]

\* first render of App
MountApp ==
  /\ mounted = "none"
  /\ mounted' = "app"
  /\ LET st0 == [Snapshot EXCEPT
                   !.settings = InitialSettings(storageWorks, storage[STORAGE_KEY]),
                   !.settingsSet = TRUE,
                   !.history = LoadHistoryFromStorage(storageWorks,
                                                      storage[HISTORY_STORAGE_KEY])]
     IN \E now \in Nows, rnd \in AppRandomSuffixes :
          Publish(Commit(st0, st0, TRUE, now, rnd))
  /\ settingsIsDefault' =
       (LoadSettingsFromStorage(storageWorks, storage[STORAGE_KEY]) = Null)
  /\ UNCHANGED <<storageWorks, inflight, document, button, obs>>

\* a handler set the state to st: re-render and run the effects
Handle(st) ==
  /\ mounted = "app"
  /\ \E now \in Nows, rnd \in AppRandomSuffixes :
       Publish(Commit(Snapshot, st, FALSE, now, rnd))
  /\ settingsIsDefault' = (settingsIsDefault /\ ~st.settingsSet)
  /\ obs' = Observe(st)
  /\ UNCHANGED <<mounted, storageWorks, inflight, document, button>>

\* TextInput.handleChange -> setText(newValue)
ChangeText(newValue) ==
  /\ Len(newValue) <= MAX_TEXT_LENGTH
  /\ Handle([Snapshot EXCEPT !.text = newValue])

\* TextInput.handleClear -> setText('')
ClearText ==
  Handle([Snapshot EXCEPT !.text = <<>>])

\* a settings setter called from ColorPicker or SizeControl
AppSetter(accepted, new) ==
  Handle(IF accepted
         THEN [Snapshot EXCEPT !.settings = new, !.settingsSet = TRUE]
         ELSE Snapshot)

AppSetMargin(margin) ==
  AppSetter(IsValidMargin(margin), WithMargin(settings, margin))

\* handleRestore(item)
HandleRestore(item) ==
  LET s1 == IF IsValidHexColor(item.foregroundColor)
            THEN WithForegroundColor(settings, item.foregroundColor) ELSE settings
      s2 == IF IsValidHexColor(item.backgroundColor)
            THEN WithBackgroundColor(s1, item.backgroundColor) ELSE s1
      s3 == IF IsValidSize(item.size) THEN WithQrSize(s2, item.size) ELSE s2
      s4 == IF IsValidMargin(item.margin) THEN WithMargin(s3, item.margin) ELSE s3
  IN Handle([Snapshot EXCEPT
               !.text = item.text,
               !.settings = s4,
               !.settingsSet = \/ IsValidHexColor(item.foregroundColor)
                               \/ IsValidHexColor(item.backgroundColor)
                               \/ IsValidSize(item.size)
                               \/ IsValidMargin(item.margin),
               !.ref = item.text])

\* HistoryList onClear -> clearHistory()
AppClearHistory ==
  /\ history # <<>>
  /\ Handle([Snapshot EXCEPT
               !.history = <<>>,
               !.storage = SaveHistoryToStorage(@, storageWorks, <<>>)])

RemoveAt(seq, i) == SubSeq(seq, 1, i - 1) \o SubSeq(seq, i + 1, Len(seq))

\* the debounce timer fires: setIsLoading(true), setError(undefined) and the
\* call of generateQRCode
TimerFires(h) ==
  /\ mounted = "app"
  /\ h \in DOMAIN timers
  /\ timers[h].remaining = 0
  /\ Len(inflight) < MaxInFlight
  /\ \E now \in Nows, rnd \in AppRandomSuffixes,
        st \in {[Snapshot EXCEPT !.isLoading = TRUE, !.error = Undefined,
                                 !.timers = Expire(timers, h)]} :
       Publish(Commit(Snapshot, st, FALSE, now, rnd))
  /\ inflight' = Append([i \in 1..Len(inflight) |->
                           [inflight[i] EXCEPT !.latest = FALSE]],
                        [req |-> timers[h].req, latest |-> TRUE])
  /\ obs' = [obs EXCEPT !.issued = Append(@, obs.sinceChange), !.failed = FALSE]
  /\ UNCHANGED <<mounted, storageWorks, settingsIsDefault, document, button>>

\* .then: the call resolved
\* .then without the finally block: the loading flag stays as it is
ResolvesStillLoading(i) ==
  /\ mounted = "app"
  /\ i \in DOMAIN inflight
  /\ ValidateInput(inflight[i].req.text) = Accepted
  /\ \E now \in Nows, rnd \in AppRandomSuffixes,
        st \in {[Snapshot EXCEPT !.dataUrl = DataUrlOf(inflight[i].req)]} :
       Publish(Commit(Snapshot, st, FALSE, now, rnd))
  /\ inflight' = RemoveAt(inflight, i)
  /\ obs' = [obs EXCEPT !.succeeded = @ \cup {inflight[i].req.text}]
  /\ UNCHANGED <<mounted, storageWorks, settingsIsDefault, document, button>>

\* .then and .finally of the call inflight[i]
Resolves(i) ==
  /\ mounted = "app"
  /\ i \in DOMAIN inflight
  /\ ValidateInput(inflight[i].req.text) = Accepted
  /\ \E now \in Nows, rnd \in AppRandomSuffixes,
        st \in {[Snapshot EXCEPT !.dataUrl = DataUrlOf(inflight[i].req),
                                 !.isLoading = FALSE]} :
       Publish(Commit(Snapshot, st, FALSE, now, rnd))
  /\ inflight' = RemoveAt(inflight, i)
  /\ obs' = [obs EXCEPT !.succeeded = @ \cup {inflight[i].req.text}]
  /\ UNCHANGED <<mounted, storageWorks, settingsIsDefault, document, button>>

\* .catch: validateInput threw, or the encoder failed
Rejects(i) ==
  /\ mounted = "app"
  /\ i \in DOMAIN inflight
  /\ LET check == ValidateInput(inflight[i].req.text)
         msg == IF check = Accepted THEN EncoderFailureMessage("encoder error")
                ELSE check
     IN \E now \in Nows, rnd \in AppRandomSuffixes,
           st \in {[Snapshot EXCEPT !.error = ErrorOf(msg),
                                    !.dataUrl = Undefined,
                                    !.isLoading = FALSE]} :
          Publish(Commit(Snapshot, st, FALSE, now, rnd))
  /\ inflight' = RemoveAt(inflight, i)
  /\ obs' = [obs EXCEPT !.failed = @ \/ (inflight[i].latest /\ obs.issued # <<>>)]
  /\ UNCHANGED <<mounted, storageWorks, settingsIsDefault, document, button>>

\* TickMs milliseconds pass
Tick ==
  /\ mounted = "app"
  /\ \/ obs.sinceChange < DEBOUNCE_MS
     \/ \E h \in DOMAIN timers : timers[h].remaining > 0
  /\ timers' = [h \in DOMAIN timers |->
                  [timers[h] EXCEPT !.remaining = @ - Min(@, TickMs)]]
  /\ obs' = [obs EXCEPT !.sinceChange = Min(@ + TickMs, DEBOUNCE_MS)]
  /\ UNCHANGED <<mounted, storage, storageWorks, settings, settingsIsDefault,
                 history, text, dataUrl, isLoading, error, lastHistoryTextRef,
                 timeoutId, inflight, document, button>>

\* an unmount whose cleanup leaves the timer pending
UnmountAppLeaking ==
  /\ mounted = "app"
  /\ mounted' = "unmounted"
  /\ timers' = timers
  /\ timeoutId' = 0
  /\ settings' = DEFAULT_SETTINGS
  /\ settingsIsDefault' = TRUE
  /\ history' = <<>>
  /\ text' = <<>>
  /\ dataUrl' = Undefined
  /\ isLoading' = FALSE
  /\ error' = Undefined
  /\ lastHistoryTextRef' = <<>>
  /\ obs' = [NoObs EXCEPT !.lastCall = [op |-> "unmount",
                                        pending |-> Cardinality(DOMAIN timers)]]
  /\ UNCHANGED <<storage, storageWorks, inflight, document, button>>

\* App is unmounted: the cleanup of the generation effect clears the timer
\* and the state of the component is gone; calls in flight stay in flight
UnmountApp ==
  /\ mounted = "app"
  /\ mounted' = "unmounted"
  /\ timers' = ClearTimeout(timers, timeoutId)
  /\ timeoutId' = 0
  /\ settings' = DEFAULT_SETTINGS
  /\ settingsIsDefault' = TRUE
  /\ history' = <<>>
  /\ text' = <<>>
  /\ dataUrl' = Undefined
  /\ isLoading' = FALSE
  /\ error' = Undefined
  /\ lastHistoryTextRef' = <<>>
  /\ obs' = [NoObs EXCEPT !.lastCall = [op |-> "unmount",
                                        pending |-> Cardinality(DOMAIN timers)]]
  /\ UNCHANGED <<storage, storageWorks, inflight, document, button>>

\* a call settles after the unmount: the state setters of an unmounted
\* component do nothing
SettlesUnmounted(i) ==
  /\ mounted = "unmounted"
  /\ i \in DOMAIN inflight
  /\ inflight' = RemoveAt(inflight, i)
  /\ UNCHANGED <<mounted, storage, storageWorks, settings, settingsIsDefault,
                 history, text, dataUrl, isLoading, error, lastHistoryTextRef,
                 timers, timeoutId, document, button, obs>>

NextApp ==
  \/ MountApp
  \/ UnmountApp
  \/ \E i \in DOMAIN inflight : SettlesUnmounted(i)
  \/ \E t \in TextInputs : Len(history) < MaxAppEntries /\ ChangeText(t)
  \/ Len(history) < MaxAppEntries /\ ClearText
  \* a margin chosen in SizeControl: one in range, one beyond it
  \/ \E n \in {4, 11} : Len(history) < MaxAppEntries /\ AppSetMargin(n)
  \/ \E i \in DOMAIN history : Len(history) < MaxAppEntries /\ HandleRestore(history[i])
  \/ AppClearHistory
  \/ \E h \in DOMAIN timers : TimerFires(h)
  \/ \E i \in DOMAIN inflight : Resolves(i)
  \/ \E i \in DOMAIN inflight : Rejects(i)
  \/ Tick

\* the user stops changing text and settings once the history holds
\* MaxAppEntries entries
SpecApp == InitApp /\ [][NextApp]_vars

\* App used to fill the history: two texts, one call at a time, every call
\* succeeding, until the history holds MaxHistoryRun entries
NextAppHistory ==
  \/ MountApp
  \/ \E t \in {<<"a">>, <<"b">>} : Len(history) < MaxHistoryRun /\ ChangeText(t)
  \/ \E i \in DOMAIN history : Len(history) < MaxHistoryRun /\ HandleRestore(history[i])
  \/ AppClearHistory
  \/ \E h \in DOMAIN timers : inflight = <<>> /\ TimerFires(h)
  \/ \E i \in DOMAIN inflight : Resolves(i)
  \/ Tick

SpecAppHistory == InitApp /\ [][NextAppHistory]_vars

\* App with time passing, every due timer firing and every call settling:
\* setTimeout callbacks run once due, and the encoder settles each promise
NextAppLive ==
  \/ MountApp
  \/ \E t \in {<<" ">>, <<"a">>, <<"b">>} :
       Len(history) < MaxAppEntries /\ ChangeText(t)
  \/ \E h \in DOMAIN timers : TimerFires(h)
  \/ \E i \in DOMAIN inflight : Resolves(i)
  \/ \E i \in DOMAIN inflight : Rejects(i)
  \/ Tick

SpecAppLive ==
  /\ InitApp
  /\ [][NextAppLive]_vars
  /\ WF_vars(Tick)
  /\ WF_vars(\E h \in DOMAIN timers : TimerFires(h))
  /\ WF_vars(\E i \in DOMAIN inflight : Rejects(i) \/ Resolves(i))

\* App used to write the text: typed, cleared and restored, over a history
\* loaded from storage
InitAppText ==
  /\ InitMemory
  /\ storageWorks = TRUE
  /\ \E p \in {NoItem, OverlongEntryPayload} :
       storage = [k \in Keys |-> IF k = HISTORY_STORAGE_KEY THEN p ELSE NoItem]

NextAppText ==
  \/ MountApp
  \* a text at the limit and one beyond it are pasted
  \/ \E t \in {Repeat("x", MAX_TEXT_LENGTH), Repeat("x", MAX_TEXT_LENGTH + 1)} :
       Len(history) < MaxHistoryRun /\ ChangeText(t)
  \/ Len(history) < MaxHistoryRun /\ ClearText
  \/ \E i \in DOMAIN history : Len(history) < MaxHistoryRun /\ HandleRestore(history[i])
  \/ \E h \in DOMAIN timers : inflight = <<>> /\ TimerFires(h)
  \/ \E i \in DOMAIN inflight : Resolves(i)
  \/ \E i \in DOMAIN inflight : Rejects(i)
  \/ Tick

SpecAppText == InitAppText /\ [][NextAppText]_vars

-----------------------------------------------------------------------------
(* Claims about the Settings Store *)

\* '#' plus exactly 3 or 6 hex digits
HexColour(c) ==
  /\ Len(c) - 1 \in {3, 6}
  /\ Head(c) = "#"
  /\ \A i \in 2..Len(c) : c[i] \in HexDigits

SettersApplyIffValidStep ==
  /\ \A c \in ColorInputs : SetForegroundColor(c) =>
       IF HexColour(c)
       THEN settings' = [settings EXCEPT !.foregroundColor = c]
       ELSE settings' = settings /\ storage' = storage
  /\ \A c \in ColorInputs : SetBackgroundColor(c) =>
       IF HexColour(c)
       THEN settings' = [settings EXCEPT !.backgroundColor = c]
       ELSE settings' = settings /\ storage' = storage
  /\ \A n \in SizeInputs : SetQrSize(n) =>
       IF n \in 64..1024
       THEN settings' = [settings EXCEPT !.qrSize = n]
       ELSE settings' = settings /\ storage' = storage
  /\ \A n \in MarginInputs : SetMargin(n) =>
       IF n \in 0..10
       THEN settings' = [settings EXCEPT !.margin = n]
       ELSE settings' = settings /\ storage' = storage

\* C8: every setter applies its argument exactly when the argument is valid
\* ('#' plus 3 or 6 hex digits; size in [64,1024]; margin in [0,10]); a
\* rejected call changes neither the record in memory nor the persisted one.
C8_SettersApplyIffValid == [][SettersApplyIffValidStep]_vars

\* setQrSize(2048) was called on the default record and qrSize is still 256
C8_Witness ==
  /\ mounted = "settings"
  /\ obs.lastCall = Call("setQrSize", 2048)
  /\ settings = DEFAULT_SETTINGS

\* C9: in every state of the Settings Store both colours are valid hex
\* colours, 64 <= qrSize <= 1024 and 0 <= margin <= 10.
C9_SettingsAlwaysValid ==
  /\ HexColour(settings.foregroundColor)
  /\ HexColour(settings.backgroundColor)
  /\ settings.qrSize \in 64..1024
  /\ settings.margin \in 0..10

\* an entry with an invalid colour and an invalid size was restored: its valid
\* fields were applied, the invalid ones were not
C9_Witness ==
  /\ mounted = "settings"
  /\ obs.lastCall.op = "restore"
  /\ obs.lastCall.arg.size = 4096
  /\ settings.foregroundColor = Fff
  /\ settings.margin = 0
  /\ settings.qrSize # 4096

\* the persisted payload is an object whose four fields have the right
\* primitive types and are in range
WellFormedSettings(raw) ==
  /\ raw.kind = "json"
  /\ raw.value.t = "object"
  /\ {"foregroundColor", "backgroundColor", "qrSize", "margin"}
       \subseteq DOMAIN raw.value.v
  /\ raw.value.v.foregroundColor.t = "string"
  /\ raw.value.v.backgroundColor.t = "string"
  /\ raw.value.v.qrSize.t = "number"
  /\ raw.value.v.margin.t = "number"
  /\ HexColour(raw.value.v.foregroundColor.v)
  /\ HexColour(raw.value.v.backgroundColor.v)
  /\ raw.value.v.qrSize.v \in 64..1024
  /\ raw.value.v.margin.v \in 0..10

AllOrNothingStep ==
  (mounted = "none" /\ mounted' = "settings") =>
    LET raw == storage[STORAGE_KEY] IN
    IF storageWorks /\ WellFormedSettings(raw)
    THEN settings' = [foregroundColor |-> raw.value.v.foregroundColor.v,
                      backgroundColor |-> raw.value.v.backgroundColor.v,
                      qrSize |-> raw.value.v.qrSize.v,
                      margin |-> raw.value.v.margin.v]
    ELSE settings' = [foregroundColor |-> <<"#", "2", "2", "d", "3", "e", "e">>,
                      backgroundColor |-> <<"#", "1", "8", "1", "8", "1", "b">>,
                      qrSize |-> 256, margin |-> 2]

\* C10: the initial record is the persisted payload when that payload is
\* readable and wholly valid, and exactly the defaults otherwise: no valid
\* field of a partly invalid payload is kept.
C10_InitAllOrNothing == [][AllOrNothingStep]_vars

\* the hook was rendered over a payload whose only invalid field is qrSize
\* (2048) and holds the defaults
C10_Witness ==
  /\ mounted = "settings"
  /\ obs.lastCall = [op |-> "mount",
                     raw |-> SettingsJson(JStr(Blue), JStr(Fff), JNum(2048), JNum(4)),
                     readOk |-> TRUE]
  /\ settings.foregroundColor = DEFAULT_SETTINGS.foregroundColor
  /\ settings.qrSize = 256

-----------------------------------------------------------------------------
(* Claims about the History Store *)

\* the first n elements of seq (all of it when it is shorter)
Newest(seq, n) ==
  [i \in 1..(IF Len(seq) < n THEN Len(seq) ELSE n) |-> seq[i]]

TextsOf(h) == [i \in 1..Len(h) |-> h[i].text]

\* C5: the list never exceeds MAX_HISTORY_ITEMS; it is the newest
\* MAX_HISTORY_ITEMS of the entries added (newest first) followed by the loaded
\* ones, so after more than MAX_HISTORY_ITEMS adds it is exactly the last
\* MAX_HISTORY_ITEMS added, index 0 being the last one.
C5_HistoryBounded ==
  mounted = "history" =>
    /\ Len(history) <= MAX_HISTORY_ITEMS
    /\ history = Newest(obs.added \o obs.base, MAX_HISTORY_ITEMS)
    /\ Len(obs.added) > MAX_HISTORY_ITEMS =>
         history = Newest(obs.added, MAX_HISTORY_ITEMS)

\* more entries than the capacity were added on top of a loaded history: the
\* list is full, its head is the last entry added and the first one is gone
C5_Witness ==
  /\ mounted = "history"
  /\ obs.base # <<>>
  /\ Len(obs.added) > MAX_HISTORY_ITEMS
  /\ Len(history) = MAX_HISTORY_ITEMS
  /\ history[1].text = ItemText(MAX_HISTORY_ITEMS)
  /\ \A i \in 1..Len(history) : history[i].text # ItemText(0)

\* C6: the capacity is 5: six adds of item-0 .. item-5 to an empty history
\* leave item-5 .. item-1, newest first.
C6_CapacityIsFive ==
  (mounted = "history" /\ obs.base = <<>> /\ Len(obs.added) = 6) =>
    /\ MAX_HISTORY_ITEMS = 5
    /\ Len(history) = 5
    /\ TextsOf(history) = <<ItemText(5), ItemText(4), ItemText(3),
                            ItemText(2), ItemText(1)>>

\* an element of the persisted array with the seven fields of an entry, five
\* of them strings and two of them numbers
WellTypedEntry(j) ==
  /\ j.t = "object"
  /\ {"id", "text", "foregroundColor", "backgroundColor", "size", "margin",
      "timestamp"} \subseteq DOMAIN j.v
  /\ \A k \in {"id", "text", "foregroundColor", "backgroundColor", "timestamp"} :
       j.v[k].t = "string"
  /\ \A k \in {"size", "margin"} : j.v[k].t = "number"

ExpectedInitialHistory(readable, raw) ==
  IF readable /\ raw.kind = "json" /\ raw.value.t = "array"
  THEN LET ok == SelectSeq(raw.value.v, WellTypedEntry)
       IN [i \in 1..(IF Len(ok) < MAX_HISTORY_ITEMS THEN Len(ok)
                     ELSE MAX_HISTORY_ITEMS) |->
             [id |-> ok[i].v.id.v, text |-> ok[i].v.text.v,
              foregroundColor |-> ok[i].v.foregroundColor.v,
              backgroundColor |-> ok[i].v.backgroundColor.v,
              size |-> ok[i].v.size.v, margin |-> ok[i].v.margin.v,
              timestamp |-> ok[i].v.timestamp.v]]
  ELSE <<>>

HistoryInitStep ==
  (mounted = "none" /\ mounted' = "history") =>
    history' = ExpectedInitialHistory(storageWorks, storage[HISTORY_STORAGE_KEY])

\* C13: the initial list is the well-typed elements of the persisted array,
\* in their order, cut to the first MAX_HISTORY_ITEMS; it is empty when the
\* key is missing, the text does not parse, the value is no array or the
\* read throws.
C13_HistoryInitFilters == [][HistoryInitStep]_vars

\* the hook was rendered over an array of MAX_HISTORY_ITEMS + 1 entries and a
\* null: the null is dropped and the last entry is cut off
C13_Witness ==
  /\ mounted = "history"
  /\ obs.lastCall.op = "mountHistory"
  /\ storage[HISTORY_STORAGE_KEY] = LongHistoryPayload
  /\ Len(history) = MAX_HISTORY_ITEMS
  /\ history[1].id = <<1, "old">>
  /\ history[2].id = <<3, "old">>
  /\ history[MAX_HISTORY_ITEMS].id = <<MAX_HISTORY_ITEMS + 1, "old">>

\* C14: no two entries of the history list have the same id.
C14_IdsUnique ==
  mounted = "history" =>
    \A i, j \in DOMAIN history : i # j => history[i].id # history[j].id

-----------------------------------------------------------------------------
(* Claims about the generation pipeline *)

StaleSettledStep ==
  \A i \in DOMAIN inflight :
    (~inflight[i].latest /\ (Resolves(i) \/ Rejects(i))) =>
      UNCHANGED <<dataUrl, error, isLoading>>

\* C1: when a call that is no longer the most recently issued one resolves or
\* rejects, the published result, the published error and the loading flag
\* stay as they are.
C1_StaleOutcomeDiscarded == [][StaleSettledStep]_vars

\* C2: whenever the trimmed text is empty, no result and no error are
\* published and the loading flag is false.
C2_EmptyTextIsIdle ==
  (mounted = "app" /\ Trim(text) = <<>>) =>
    (dataUrl = Undefined /\ error = Undefined /\ ~isLoading)

\* C3: since the last change of text or settings at most one encoder call was
\* issued, and it was issued a full debounce delay after that change: no call
\* is issued while changes keep arriving less than 300 ms apart.
C3_DebounceCoalesces ==
  /\ Len(obs.issued) <= 1
  /\ \A k \in DOMAIN obs.issued : obs.issued[k] = DEBOUNCE_MS

\* a burst of two or more changes, each within the debounce delay of the one
\* before, has ended with its single call
C3_Witness ==
  /\ mounted = "app"
  /\ obs.burst >= 2
  /\ obs.issued = <<DEBOUNCE_MS>>
  /\ inflight # <<>>

EntryAddedStep ==
  (history' # history /\ history' # <<>>) =>
    history'[1].text \in obs'.succeeded

\* C4: an entry with text t enters the history only once an encoder call for
\* the trimmed text t has completed successfully.
C4_AddedOnlyOnSuccess == [][EntryAddedStep]_vars

GenerationAddsStep ==
  \A i \in DOMAIN inflight :
    (Resolves(i) /\ dataUrl # Undefined) =>
      IF dataUrl.png.text = inflight[i].req.text
      THEN history' = history
      ELSE /\ Len(history') = Len(history) + 1
           /\ history'[1].text = inflight[i].req.text

\* C7: a successful generation adds no entry when its trimmed text is that of
\* the successful generation just before it (whose result is on display), and
\* adds exactly one entry, its own, when the text differs.
C7_SuppressionByPreviousGeneration == [][GenerationAddsStep]_vars

-----------------------------------------------------------------------------
(* Claims about the two stores together *)

\* C11: with working storage, whatever was set, reset, added or cleared,
\* initialising the Settings Store again from storage gives the settings
\* record in memory and initialising the History Store again gives the
\* history list in memory, entry by entry in the same order.
C11_DurabilityRoundTrip ==
  (mounted = "stores" /\ storageWorks) =>
    /\ InitialSettings(storageWorks, storage[STORAGE_KEY]) = settings
    /\ LoadHistoryFromStorage(storageWorks, storage[HISTORY_STORAGE_KEY]) = history

WriteFailureAbsorbedStep ==
  ~storageWorks =>
    /\ storage' = storage
    /\ \A n \in StoresSizeInputs :
         (SetQrSize(n) /\ n \in 64..1024) => settings'.qrSize = n
    /\ ResetSettings =>
         settings' = [foregroundColor |-> <<"#", "2", "2", "d", "3", "e", "e">>,
                      backgroundColor |-> <<"#", "1", "8", "1", "8", "1", "b">>,
                      qrSize |-> 256, margin |-> 2]
    /\ \A now \in Nows, rnd \in RandomSuffixes :
         AddToHistory(ItemInput(ItemText(Len(obs.added))), now, rnd) =>
           /\ Len(history') = Len(history) + 1
           /\ history'[1].text = ItemText(Len(obs.added))
           /\ \A i \in DOMAIN history : history'[i + 1] = history[i]
    /\ ClearHistory => history' = <<>>

\* C12: when every storage write throws, a setter, a reset, an add and a
\* clear still complete and change the state in memory as they do with
\* working storage; only the persisted values stay as they were.
C12_WriteFailuresAbsorbed == [][WriteFailureAbsorbedStep]_vars

\* with failing storage the size was set after two entries were added:
\* memory holds the new size and both entries, storage holds nothing
C12_Witness ==
  /\ mounted = "stores"
  /\ ~storageWorks
  /\ obs.lastCall = Call("setQrSize", 64)
  /\ settings.qrSize = 64
  /\ Len(history) = 2
  /\ storage[STORAGE_KEY] = NoItem
  /\ storage[HISTORY_STORAGE_KEY] = NoItem

RestoreInFullStep ==
  \A i \in DOMAIN history :
    RestoreEntry(history[i]) =>
      /\ text' = history[i].text
      /\ settings' = [foregroundColor |-> history[i].foregroundColor,
                      backgroundColor |-> history[i].backgroundColor,
                      qrSize |-> history[i].size,
                      margin |-> history[i].margin]

\* C18: restoring any entry of the history list, loaded ones included, sets
\* the text to the entry's text and the settings record to the entry's two
\* colours, size and margin, all four of them.
C18_RestoreWritesInFull == [][RestoreInFullStep]_vars

StoresApartStep ==
  /\ (\/ MountStores
      \/ \E n \in StoresSizeInputs : SetQrSize(n)
      \/ ResetSettings
      \/ \E i \in DOMAIN history : RestoreEntry(history[i])) =>
       /\ storage'[HISTORY_STORAGE_KEY] = storage[HISTORY_STORAGE_KEY]
       /\ mounted = "stores" => history' = history
  /\ (\/ \E now \in Nows, rnd \in RandomSuffixes :
           AddToHistory(ItemInput(ItemText(Len(obs.added))), now, rnd)
      \/ ClearHistory) =>
       /\ storage'[STORAGE_KEY] = storage[STORAGE_KEY]
       /\ settings' = settings

\* C19: a setter, a reset, a restore and the persist effect of the Settings
\* Store leave the history list and the value under 'qr-history' as they
\* are; an add and a clear of the History Store leave the settings record
\* and the value under 'qr-settings' as they are.
C19_StoresDoNotInterfere == [][StoresApartStep]_vars

\* both stores hold and persist values of their own: the size was set after
\* two entries were added on top of the two loaded ones
C19_Witness ==
  /\ mounted = "stores"
  /\ storageWorks
  /\ obs.lastCall = Call("setQrSize", 64)
  /\ storage[STORAGE_KEY] = StringifySettings(settings)
  /\ settings.qrSize = 64
  /\ Len(obs.added) = 2
  /\ Len(history) = 4
  /\ storage[HISTORY_STORAGE_KEY].kind = "json"
  /\ Len(storage[HISTORY_STORAGE_KEY].value.v) = 4

\* C16: once the most recently issued call has failed, and until text or
\* settings change again, an error is published, no result is, the loading
\* flag is false, no timer is pending and no second call was issued.
C16_SettlesInErrorState ==
  (mounted = "app" /\ obs.failed) =>
    /\ error # Undefined
    /\ dataUrl = Undefined
    /\ ~isLoading
    /\ timers = <<>>
    /\ Len(obs.issued) = 1

\* C17: while the call issued for the most recent change is in flight and
\* the text is not empty, the loading flag is true.
C17_LoadingWhileInFlight ==
  (/\ mounted = "app"
   /\ obs.issued # <<>>
   /\ \E i \in DOMAIN inflight : inflight[i].latest
   /\ Trim(text) # <<>>) => isLoading

\* req is built from the text and the settings of the current state
BuiltFromCurrent(req) ==
  /\ req.text = Trim(text)
  /\ req.text # <<>>
  /\ req.foregroundColor = settings.foregroundColor
  /\ req.backgroundColor = settings.backgroundColor
  /\ req.size = settings.qrSize
  /\ req.margin = settings.margin
  /\ req.errorCorrectionLevel = "M"

\* C23: the request a pending timer will issue, and the request of the call
\* issued since the last change, are built from the current trimmed,
\* non-empty text and the current settings, with error-correction level 'M':
\* no call is issued for values a change has superseded.
C23_CallsUseCurrentValues ==
  mounted = "app" =>
    /\ \A h \in DOMAIN timers : BuiltFromCurrent(timers[h].req)
    /\ obs.issued # <<>> =>
         \A i \in DOMAIN inflight :
           inflight[i].latest => BuiltFromCurrent(inflight[i].req)

\* after a burst of changes that ended with a text with a trailing space and
\* a new margin, the call for the trimmed text and that margin is in flight
C23_Witness ==
  /\ mounted = "app"
  /\ obs.burst >= 2
  /\ obs.issued # <<>>
  /\ text = <<"a", " ">>
  /\ settings.margin = 4
  /\ \E i \in DOMAIN inflight :
       /\ inflight[i].latest
       /\ inflight[i].req.text = <<"a">>
       /\ inflight[i].req.margin = 4

\* C24: at most one debounce timer is pending, and it is the timer of the
\* last change (it expires DEBOUNCE_MS after that change); none is pending
\* while the text is empty or after App was unmounted.
C24_OneTimerPending ==
  /\ Cardinality(DOMAIN timers) <= 1
  /\ \A h \in DOMAIN timers : timers[h].remaining = DEBOUNCE_MS - obs.sinceChange
  /\ (mounted = "app" /\ Trim(text) = <<>>) => timers = <<>>
  /\ mounted = "unmounted" => timers = <<>>

\* App was unmounted while a timer was pending, and none is pending now
C24_Witness ==
  /\ mounted = "unmounted"
  /\ obs.lastCall.op = "unmount"
  /\ obs.lastCall.pending = 1
  /\ timers = <<>>

\* C25: a result and an error are never published together.
C25_SingleOutcome ==
  mounted = "app" => ~(dataUrl # Undefined /\ error # Undefined)

RegeneratedAfterClearStep ==
  \A i \in DOMAIN inflight :
    (/\ Resolves(i)
     /\ history = <<>>
     /\ lastHistoryTextRef # <<>>
     /\ inflight[i].latest
     /\ obs.issued # <<>>
     /\ Trim(text) # <<>>) => history' # <<>>

\* C27: when the history is empty because it was cleared (the ref still
\* holds the text of an entry added before), the successful generation of the
\* current non-empty text adds an entry.
C27_AddsAfterClear == [][RegeneratedAfterClearStep]_vars

\* C26: no two adjacent entries of the history have the same text.
C26_NoAdjacentDuplicates ==
  mounted = "app" =>
    \A i \in 1..(Len(history) - 1) : history[i].text # history[i + 1].text

\* nothing is left to happen, and a text that is not empty once trimmed has
\* its result or its error on screen
Quiescent ==
  /\ timers = <<>>
  /\ inflight = <<>>
  /\ ~isLoading
  /\ Trim(text) # <<>> => (dataUrl # Undefined \/ error # Undefined)

\* C28: if the text and the settings stop changing, and every call issued
\* settles, then from some moment on no timer is pending, no call is in
\* flight, the loading flag is false and, when the text is not empty once
\* trimmed, a result or an error is published.
C28_NeverStuckLoading ==
  (<>[][text' = text /\ settings' = settings]_vars) =>
    <>[](mounted = "app" => Quiescent)

\* the pipeline came to rest on the error of the only call issued after a
\* burst of two changes
C28_Witness ==
  /\ mounted = "app"
  /\ Quiescent
  /\ Trim(text) # <<>>
  /\ obs.burst = 2
  /\ Len(obs.issued) = 1
  /\ obs.sinceChange = DEBOUNCE_MS
  /\ error # Undefined

\* C29: the text of App never holds more than 4096 characters, whether it
\* was typed, cleared or restored from a history entry.
C29_TextWithinLimit == Len(text) <= MAX_TEXT_LENGTH

-----------------------------------------------------------------------------
(* Claims about generateQRCode *)

\* every character is white space (true of the empty text)
WhitespaceOnly(t) == \A i \in DOMAIN t : t[i] \in {" ", "\t", "\n"}

Mentions(message, part) == \E i \in DOMAIN message : message[i] = part

FailedEarlyWith(call, part) ==
  /\ call.outcome.kind = "error"
  /\ call.outcome.name = "QRGenerationError"
  /\ Mentions(call.outcome.message, part)
  /\ call.encoderCalls = 0

\* C15: a call with a text longer than 4096 characters fails with a
\* QRGenerationError mentioning 'exceeds maximum length', a call with an empty
\* or whitespace-only text fails with one mentioning 'Text input is
\* required', and neither reaches the encoder.
C15_PrechecksBeforeEncoder ==
  mounted = "generate" =>
    /\ Len(obs.lastCall.arg.text) > 4096 =>
         FailedEarlyWith(obs.lastCall, "exceeds maximum length")
    /\ WhitespaceOnly(obs.lastCall.arg.text) =>
         FailedEarlyWith(obs.lastCall, "Text input is required")

\* C15 as amended: the length check applies to texts that are not
\* whitespace-only; an empty or whitespace-only text of any length fails with
\* 'Text input is required'.
C15_PrechecksInOrder ==
  mounted = "generate" =>
    /\ (Len(obs.lastCall.arg.text) > 4096 /\ ~WhitespaceOnly(obs.lastCall.arg.text)) =>
         FailedEarlyWith(obs.lastCall, "exceeds maximum length")
    /\ WhitespaceOnly(obs.lastCall.arg.text) =>
         FailedEarlyWith(obs.lastCall, "Text input is required")

\* generateQRCode was called with 4097 characters, the first of them not a
\* space, and threw the length error without calling the encoder
C15_Witness ==
  /\ mounted = "generate"
  /\ Len(obs.lastCall.arg.text) = 4097
  /\ obs.lastCall.arg.text[1] = "a"
  /\ obs.lastCall.arg.text[2] = " "
  /\ obs.lastCall.encoderCalls = 0
  /\ obs.lastCall.outcome.kind = "error"
  /\ obs.lastCall.outcome.message[2] = "exceeds maximum length"
  /\ obs.lastCall.outcome.message[4] = "4097"

-----------------------------------------------------------------------------
(* Claims about DownloadButton *)

InvokedWhenIdleStep ==
  obs'.invocations # obs.invocations => ~button.disabled /\ ~button.showSuccess

\* C21: DownloadButton never calls its onClick prop, on a mouse click or on
\* an Enter or Space key press, while its disabled prop is true or while it
\* shows the success state.
C21_NoCallWhileDisabledOrSuccess == [][InvokedWhenIdleStep]_vars

\* Enter was pressed on a button showing the success state after one call of
\* onClick, and no second call was made
C21_Witness ==
  /\ mounted = "button"
  /\ button.showSuccess
  /\ obs.lastCall = [op |-> "keyDown", invoked |-> FALSE, outcome |-> "none"]
  /\ obs.invocations = 1

\* C22 as stated: after an onClick call went through the button shows the
\* success state and leaves it 2000 ms after entering it; after an onClick
\* call threw or rejected the button is idle.
C22_SuccessForTwoSeconds ==
  mounted = "button" =>
    /\ obs.sinceSuccess < SUCCESS_DURATION_MS => button.showSuccess
    /\ button.showSuccess =>
         /\ button.timeoutRef \in DOMAIN timers
         /\ timers[button.timeoutRef].remaining = SUCCESS_DURATION_MS - obs.sinceEntered
    /\ (obs.lastCall.op \in {"click", "keyDown", "settle"}
          /\ obs.lastCall.outcome \in {"throws", "rejects"}) => ~button.showSuccess

\* C22, amended: the button shows the success state from the moment an
\* onClick call went through until 2000 ms after the most recent such
\* moment, and is idle otherwise; an onClick call that throws or rejects
\* changes neither the state nor the time at which it ends.
C22_SuccessAfterLatestCompletion ==
  mounted = "button" =>
    /\ obs.sinceSuccess < SUCCESS_DURATION_MS => button.showSuccess
    /\ button.showSuccess =>
         /\ DOMAIN timers = {button.timeoutRef}
         /\ timers[button.timeoutRef].remaining = SUCCESS_DURATION_MS - obs.sinceSuccess
    /\ ~button.showSuccess => timers = <<>>

\* two calls overlapped: the second went through 1000 ms after the first,
\* and 2000 ms after entering the success state the button still shows it
C22_Witness ==
  /\ mounted = "button"
  /\ button.showSuccess
  /\ obs.sinceEntered = SUCCESS_DURATION_MS
  /\ obs.sinceSuccess = ButtonTickMs
  /\ timers[button.timeoutRef].remaining = SUCCESS_DURATION_MS - ButtonTickMs

-----------------------------------------------------------------------------
(* Claims about downloadQRCode *)

\* the characters of url begin with 'data:image/png;base64,'
BeginsWithPngHeader(url) ==
  LET header == <<"d", "a", "t", "a", ":", "i", "m", "a", "g", "e", "/", "p",
                  "n", "g", ";", "b", "a", "s", "e", "6", "4", ",">>
  IN /\ Len(url) >= 22
     /\ \A i \in 1..22 : url[i] = header[i]

DownloadRejectsStep ==
  \A url \in DownloadDataUrls, filename \in DownloadFilenames,
     now \in DownloadDates, failure \in DomFailures :
    (DownloadQRCode(url, filename, now, failure)
       /\ (url = <<>> \/ ~BeginsWithPngHeader(url))) =>
      /\ obs'.lastCall.outcome.kind = "error"
      /\ obs'.lastCall.outcome.message = <<"Invalid PNG data URL provided">>
      /\ document' = document

\* C20: a call of downloadQRCode with an empty dataUrl, or one that does not
\* begin with 'data:image/png;base64,', throws 'Invalid PNG data URL
\* provided' and leaves the document as it was: no element is created,
\* attached or clicked.
C20_InvalidUrlRejected == [][DownloadRejectsStep]_vars

\* after a download that went through, a JPEG data URL was rejected: the
\* document still holds that one download and no anchor
C20_Witness ==
  /\ mounted = "download"
  /\ Len(obs.lastCall.dataUrl) = 26
  /\ SubSeq(obs.lastCall.dataUrl, 12, 15) = <<"j", "p", "e", "g">>
  /\ obs.lastCall.outcome.kind = "error"
  /\ obs.lastCall.outcome.message = <<"Invalid PNG data URL provided">>
  /\ document.created = 1
  /\ document.body = <<>>
  /\ Len(document.downloads) = 1

\* C30: whenever downloadQRCode has returned or thrown, no anchor it
\* created is attached to document.body.
C30_NoAnchorLeftBehind ==
  mounted = "download" => document.body = <<>>

====
